---- MODULE Spec2Model ----
(***************************************************************************)
(* A model of savedump (src/savedump/savedump.py, with the older copy of  *)
(* the debug-data check kept in src/savedump/prog.py).                     *)
(*                                                                         *)
(* Text is modelled as a sequence of atoms.  An atom is a chunk of text    *)
(* without white space, or the white-space atom " ".  A line is a sequence *)
(* of atoms, a tool's output is a sequence of lines (str.splitlines), and  *)
(* a path is a sequence of atoms in which "/" is the separator.  Python's  *)
(* `needle in line` is the infix test on atoms, str.split() cuts a line at *)
(* its white-space atoms and slicing counts atoms: wherever the code       *)
(* slices (the build id), the atoms of the input are single characters.    *)
(*                                                                         *)
(* Python's None and Optional[T] are modelled as sequences of length 0     *)
(* (None) and 1 (Some(x)).  The pair (success, output) that shell_cmd      *)
(* returns is the record [ok, out].  The imports of drgn and kdumpfile are *)
(* taken to succeed and the dump to be readable by them.                   *)
(***************************************************************************)
EXTENDS Naturals, Sequences, FiniteSets, TLC

\* ------------------------------------------------------------------ bounds

MaxFileParts == 2
MaxGdbLines == 4
MaxLddLines == 2
MaxSLines == 2
MaxNLines == 2
MaxCandidates == 2

\* ------------------------------------------------------- text primitives

None == << >>
Some(x) == << x >>
IsNone(o) == o = << >>
Val(o) == o[1]

SP == " "
NL == "\n"

Range(s) == { s[i] : i \in 1..Len(s) }

RECURSIVE Flatten(_)
Flatten(ss) == IF ss = << >> THEN << >> ELSE Head(ss) \o Flatten(Tail(ss))

\* All sequences over S of length 0..n.
RECURSIVE SeqsUpTo(_, _)
SeqsUpTo(S, n) ==
    IF n = 0 THEN { << >> }
    ELSE LET shorter == SeqsUpTo(S, n - 1)
         IN  shorter \cup { Append(s, x) : s \in { t \in shorter : Len(t) = n - 1 }, x \in S }

\* Sequences without repetition over S of length 0..n.
ArrangementsUpTo(S, n) ==
    { s \in SeqsUpTo(S, n) : \A i, j \in 1..Len(s) : i # j => s[i] # s[j] }

\* Python `needle in hay` on strings.
Contains(hay, needle) ==
    \E i \in 0..(Len(hay) - Len(needle)) :
        \A k \in 1..Len(needle) : hay[i + k] = needle[k]

\* Python str.find(ch): the first index (from 1 here) of the atom, 0 if absent.
Find(line, ch) ==
    IF \E i \in 1..Len(line) : line[i] = ch
    THEN CHOOSE i \in 1..Len(line) : line[i] = ch /\ \A j \in 1..(i - 1) : line[j] # ch
    ELSE 0

IsSpace(a) == a \in {SP, NL}

\* Python str.split(): the maximal runs of atoms that are not white space.
RECURSIVE Split(_)
Split(line) ==
    IF line = << >> THEN << >>
    ELSE IF IsSpace(Head(line)) THEN Split(Tail(line))
    ELSE LET n == Len(line)
             stop == IF \E i \in 1..n : IsSpace(line[i])
                     THEN (CHOOSE i \in 1..n : IsSpace(line[i]) /\ \A j \in 1..(i - 1) : ~IsSpace(line[j]))
                     ELSE n + 1
         IN  << SubSeq(line, 1, stop - 1) >> \o Split(SubSeq(line, stop, n))

\* Python str.strip(): drops the leading and the trailing white space.
RECURSIVE LStrip(_)
LStrip(s) == IF s # << >> /\ IsSpace(Head(s)) THEN LStrip(Tail(s)) ELSE s

RECURSIVE RStrip(_)
RStrip(s) == IF s # << >> /\ IsSpace(s[Len(s)]) THEN RStrip(SubSeq(s, 1, Len(s) - 1)) ELSE s

Strip(s) == LStrip(RStrip(s))

\* Python slices s[:n] and s[n:], for n >= 0.
Take(s, n) == SubSeq(s, 1, IF n < Len(s) THEN n ELSE Len(s))
Drop(s, n) == SubSeq(s, n + 1, Len(s))

\* Python slice s[:-n]: all but the last n.
DropLast(s, n) == IF Len(s) <= n THEN << >> ELSE SubSeq(s, 1, Len(s) - n)

\* os.path.basename and os.path.dirname: cut at the last "/".
LastSep(p) ==
    IF \E i \in 1..Len(p) : p[i] = "/"
    THEN CHOOSE i \in 1..Len(p) : p[i] = "/" /\ \A j \in (i + 1)..Len(p) : p[j] # "/"
    ELSE 0

basename(p) == SubSeq(p, LastSep(p) + 1, Len(p))

RECURSIVE RStripSep(_)
RStripSep(s) == IF s # << >> /\ s[Len(s)] = "/" THEN RStripSep(SubSeq(s, 1, Len(s) - 1)) ELSE s

\* head = p[:i + 1], stripped of its trailing separators unless it is all separators.
dirname(p) ==
    LET head == SubSeq(p, 1, LastSep(p))
    IN  IF \A j \in 1..Len(head) : head[j] = "/" THEN head ELSE RStripSep(head)

\* ------------------------------------------------------- program constants

\* class DumpType(Enum), in definition order, and the value of each member.
DumpTypes == << "CRASHDUMP", "UCOREDUMP" >>

DumpTypeValue(t) ==
    IF t = "CRASHDUMP" THEN << "Kdump", SP, "compressed", SP, "dump" >>
    ELSE << "core", SP, "file" >>

SharedObjectLibrary == << "Shared", SP, "Object", SP, "Library" >>
BuildIdLabel == << "Build", SP, "ID:" >>
ExecfnOpen == << "execfn:", SP, "'" >>
ExecfnClose == << "'", "," >>
DebugRoot == << "/", "usr", "/", "lib", "/", "debug", "/", ".build-id", "/" >>
DebugBoot == << "/", "usr", "/", "lib", "/", "debug", "/", "boot", "/" >>

\* --------------------------------------------------------- pure functions

\* A mutant of get_dump_type: the members are tried in the reverse order.
get_dump_type_reversed(output) ==
    LET hits == { i \in 1..Len(DumpTypes) : Contains(output, DumpTypeValue(DumpTypes[i])) }
    IN  IF hits = {} THEN None
        ELSE Some(DumpTypes[CHOOSE i \in hits : \A j \in hits : i >= j])

\* get_dump_type after a successful probe: the first member of DumpType, in
\* definition order, whose value occurs in the output; None if there is none.
get_dump_type(output) ==
    LET hits == { i \in 1..Len(DumpTypes) : Contains(output, DumpTypeValue(DumpTypes[i])) }
    IN  IF hits = {} THEN None
        ELSE Some(DumpTypes[CHOOSE i \in hits : \A j \in hits : i <= j])

\* re.search("execfn: '(.+?)',", output): the leftmost start at which the pattern
\* matches and, from there, the shortest group; "." matches no newline.
ExecfnMatches(output) ==
    { m \in (1..Len(output)) \X (1..Len(output)) :
        /\ m[1] + Len(ExecfnOpen) <= m[2] - 1
        /\ m[2] + Len(ExecfnClose) - 1 <= Len(output)
        /\ \A k \in 1..Len(ExecfnOpen) : output[m[1] + k - 1] = ExecfnOpen[k]
        /\ \A k \in 1..Len(ExecfnClose) : output[m[2] + k - 1] = ExecfnClose[k]
        /\ \A k \in (m[1] + Len(ExecfnOpen))..(m[2] - 1) : output[k] # NL }

execfn_search(output) ==
    LET ms == ExecfnMatches(output)
    IN  IF ms = {} THEN None
        ELSE LET m == CHOOSE a \in ms : \A b \in ms : a[1] < b[1] \/ (a[1] = b[1] /\ a[2] <= b[2])
             IN  Some(SubSeq(output, m[1] + Len(ExecfnOpen), m[2] - 1))

\* The loop of get_libraries_through_gdb over output.splitlines().
RECURSIVE gdb_loop(_, _, _, _)
gdb_loop(lines, start_recording, libraries, exists) ==
    IF lines = << >> THEN libraries
    ELSE LET line == Head(lines)
             so_path_index == Find(line, "/")
             so_path == SubSeq(line, so_path_index, Len(line))
         IN  IF start_recording
             THEN IF so_path_index >= 1 /\ so_path \in exists
                  THEN gdb_loop(Tail(lines), TRUE, Append(libraries, so_path), exists)
                  ELSE gdb_loop(Tail(lines), TRUE, libraries, exists)
             ELSE gdb_loop(Tail(lines), Contains(line, SharedObjectLibrary), libraries, exists)

\* The paths the loop warns of: "warning: could not find shared object".
RECURSIVE gdb_missing(_, _, _)
gdb_missing(lines, start_recording, exists) ==
    IF lines = << >> THEN {}
    ELSE LET line == Head(lines)
             so_path_index == Find(line, "/")
             so_path == SubSeq(line, so_path_index, Len(line))
         IN  IF start_recording
             THEN (IF so_path_index >= 1 /\ so_path \notin exists THEN {so_path} ELSE {})
                  \cup gdb_missing(Tail(lines), TRUE, exists)
             ELSE gdb_missing(Tail(lines), Contains(line, SharedObjectLibrary), exists)

\* A mutant of get_libraries_through_gdb: rows are recorded from the first
\* line on, the header is not waited for.
get_libraries_through_gdb_from_top(res, exists) ==
    IF ~res.ok THEN None ELSE Some(gdb_loop(res.out, TRUE, << >>, exists))

\* get_libraries_through_gdb: None when the invocation failed.
get_libraries_through_gdb(res, exists) ==
    IF ~res.ok THEN None ELSE Some(gdb_loop(res.out, FALSE, << >>, exists))

\* The loop of get_libraries_through_ldd; raised: line.split()[2] found no
\* third token (IndexError).
RECURSIVE ldd_loop(_, _)
ldd_loop(lines, libraries) ==
    IF lines = << >> THEN [raised |-> FALSE, libs |-> libraries]
    ELSE LET line == Strip(Head(lines))
             toks == Split(line)
         IN  IF Contains(line, << "=>" >>)
             THEN IF Len(toks) < 3 THEN [raised |-> TRUE, libs |-> libraries]
                  ELSE ldd_loop(Tail(lines), Append(libraries, toks[3]))
             ELSE IF Contains(line, << "ld-linux-" >>)
                  THEN ldd_loop(Tail(lines), Append(libraries, toks[1]))
                  ELSE ldd_loop(Tail(lines), libraries)

\* The loop of binary_includes_debug_info (savedump.py).
RECURSIVE includes_loop(_, _, _)
includes_loop(lines, debug_info, debug_str) ==
    IF lines = << >> THEN FALSE
    ELSE LET di == debug_info \/ Contains(Head(lines), << ".debug_info" >>)
             ds == debug_str \/ Contains(Head(lines), << ".debug_str" >>)
         IN  IF di /\ ds THEN TRUE ELSE includes_loop(Tail(lines), di, ds)

\* binary_includes_debug_info of savedump.py: Optional[bool].
binary_includes_debug_info(res) ==
    IF ~res.ok THEN None ELSE Some(includes_loop(res.out, FALSE, FALSE))

\* The same loop in prog.py: both returns are False.
RECURSIVE prog_includes_loop(_, _, _)
prog_includes_loop(lines, debug_info, debug_str) ==
    IF lines = << >> THEN FALSE
    ELSE LET di == debug_info \/ Contains(Head(lines), << ".debug_info" >>)
             ds == debug_str \/ Contains(Head(lines), << ".debug_str" >>)
         IN  IF di /\ ds THEN FALSE ELSE prog_includes_loop(Tail(lines), di, ds)

prog_binary_includes_debug_info(res) ==
    IF ~res.ok THEN None ELSE Some(prog_includes_loop(res.out, FALSE, FALSE))

\* Python truthiness of an Optional[bool]: None and False are falsy.
Truthy(ob) == ~IsNone(ob) /\ Val(ob)

\* f"/usr/lib/debug/.build-id/{build_id[:2]}/{build_id[2:]}.debug"
debug_path_of(build_id) ==
    DebugRoot \o Take(build_id, 2) \o << "/" >> \o Drop(build_id, 2) \o << ".debug" >>

\* The part of get_debug_info_path after its assertion.  raised: the first
\* line holding 'Build ID:' has no third token (IndexError in line.split()[2]).
RECURSIVE build_id_loop(_, _)
build_id_loop(lines, exists) ==
    IF lines = << >> THEN [raised |-> FALSE, path |-> None]
    ELSE LET line == Head(lines)
             toks == Split(line)
         IN  IF Contains(line, BuildIdLabel)
             THEN IF Len(toks) < 3 THEN [raised |-> TRUE, path |-> None]
                  ELSE IF debug_path_of(toks[3]) \in exists
                       THEN [raised |-> FALSE, path |-> Some(debug_path_of(toks[3]))]
                       ELSE [raised |-> FALSE, path |-> None]
             ELSE build_id_loop(Tail(lines), exists)

get_debug_info_path(res, exists) ==
    IF ~res.ok THEN [raised |-> FALSE, path |-> None] ELSE build_id_loop(res.out, exists)

\* A mutant of scan_step: a fingerprint that differs drops the name too (the
\* `del` outside the comparison).
scan_step_drops(st, modpath, res) ==
    LET modname == DropLast(basename(modpath), 3)
    IN  IF modname \notin DOMAIN st.srcvers \/ st.srcvers[modname] = << >> THEN st
        ELSE IF ~res.ok THEN [st EXCEPT !.exit = Some(res.out)]
        ELSE [srcvers |-> [n \in DOMAIN st.srcvers \ {modname} |-> st.srcvers[n]],
              mod_paths |-> IF Strip(res.out) # st.srcvers[modname] THEN st.mod_paths
                            ELSE Append(st.mod_paths, modpath),
              exit |-> st.exit]

\* A mutant of scan_step: the matched name stays in the dict (no `del`).
scan_step_keeps(st, modpath, res) ==
    LET modname == DropLast(basename(modpath), 3)
    IN  IF modname \notin DOMAIN st.srcvers \/ st.srcvers[modname] = << >> THEN st
        ELSE IF ~res.ok THEN [st EXCEPT !.exit = Some(res.out)]
        ELSE IF Strip(res.out) # st.srcvers[modname] THEN st
        ELSE [st EXCEPT !.mod_paths = Append(st.mod_paths, modpath)]

\* A mutant of scan_step: the name alone decides, the srcversion is not compared.
scan_step_by_name(st, modpath, res) ==
    LET modname == DropLast(basename(modpath), 3)
    IN  IF modname \notin DOMAIN st.srcvers \/ st.srcvers[modname] = << >> THEN st
        ELSE IF ~res.ok THEN [st EXCEPT !.exit = Some(res.out)]
        ELSE [srcvers |-> [n \in DOMAIN st.srcvers \ {modname} |-> st.srcvers[n]],
              mod_paths |-> Append(st.mod_paths, modpath),
              exit |-> st.exit]

\* The body of the loop of get_module_paths for one candidate file.  st holds
\* the locals mod_name_srcvers (a dict, here a function) and mod_paths, and
\* exit, the message of sys.exit once modinfo failed.  res is what
\* shell_cmd(['modinfo', '--field=srcversion', modpath]) returned.
scan_step(st, modpath, res) ==
    LET modname == DropLast(basename(modpath), 3)
    IN  IF modname \notin DOMAIN st.srcvers \/ st.srcvers[modname] = << >> THEN st
        ELSE IF ~res.ok THEN [st EXCEPT !.exit = Some(res.out)]
        ELSE IF Strip(res.out) # st.srcvers[modname] THEN st
        ELSE [srcvers |-> [n \in DOMAIN st.srcvers \ {modname} |-> st.srcvers[n]],
              mod_paths |-> Append(st.mod_paths, modpath),
              exit |-> st.exit]

\* The whole loop over system_modules, in the order given; it stops at sys.exit.
RECURSIVE scan_loop(_, _, _)
scan_loop(st, order, info) ==
    IF order = << >> \/ ~IsNone(st.exit) THEN st
    ELSE scan_loop(scan_step(st, Head(order), info[Head(order)]), Tail(order), info)

\* ------------------------------------------------------ the environment

Tools == { "file", "gdb", "ldd", "readelf", "modinfo", "tar" }

\* What shell_cmd returns when shutil.which finds no program, and when the
\* program exits with a code other than 0.
NotFound == [ok |-> FALSE, out |-> << "could not find program" >>]
ExitedNonZero == [ok |-> FALSE, out |-> << "exited with code" >>]
Ok(output) == [ok |-> TRUE, out |-> output]

\* The dump given on the command line, and what kdumpfile reports of it.
DumpPath == << "/", "var", "/", "crash", "/", "dump.1" >>
nodename == "host"
osrelease == "5.4"

BinPath == << "/", "sbin", "/", "ztest" >>
LibA == << "/", "lib", "/", "a.so" >>
LibB == << "/", "lib", "/", "b.so" >>
LdPath == << "/", "lib64", "/", "ld-linux-", "x86.so" >>
BuildId1 == << "1", "b", "f", "c" >>
BuildId2 == << "2" >>
VmlinuxPath == DebugBoot \o << "vmlinux-", osrelease >>
ModulesRoot ==
    << "/", "usr", "/", "lib", "/", "debug", "/", "lib", "/", "modules", "/", osrelease, "/" >>

Ko(dir, name) == ModulesRoot \o << dir, "/", name, ".", "k", "o" >>

\* The .ko files that may lie under the module tree, and the modules (name,
\* srcversion) a dump may record; a module built in has an empty srcversion.
CandidateFiles ==
    { Ko("extra", "zfs"), Ko("kernel", "zfs"), Ko("extra", "spl"), Ko("extra", "nfs") }
ModuleNames == { << "zfs" >>, << "spl" >> }
SrcVersions == { << "V1" >>, << "V2" >> }

\* Files that exist in every run, and files that may or may not exist: those a
\* run on a core file asks for, and the one a run on a kernel dump asks for.
AlwaysThere == { DumpPath, LibA, LdPath } \cup CandidateFiles
UserOptional == { BinPath, LibB, debug_path_of(BuildId1) }
KernelOptional == { VmlinuxPath }

\* `file <dump>` prints one line made of these parts.
FileParts ==
    { DumpTypeValue("CRASHDUMP"), DumpTypeValue("UCOREDUMP"),
      ExecfnOpen \o BinPath \o ExecfnClose, << "data" >> }

RECURSIVE JoinParts(_)
JoinParts(parts) ==
    IF parts = << >> THEN << >>
    ELSE IF Len(parts) = 1 THEN Head(parts)
    ELSE Head(parts) \o << SP >> \o JoinParts(Tail(parts))

FileOutputs == { JoinParts(ps) : ps \in SeqsUpTo(FileParts, MaxFileParts) }

\* Lines of gdb's `info sharedlibrary` report.
GdbHeader == << "Syms", SP, "Read", SP >> \o SharedObjectLibrary
GdbRowA == << "0x1", SP, "Yes", SP >> \o LibA
GdbRowB == << "0x2", SP, "Yes", SP >> \o LibB
GdbRowLd == << "0x3", SP, "Yes", SP, "(*)", SP >> \o LdPath
GdbFootnote == << "(*):", SP, "missing" >>
GdbPreamble == << "Using", SP, "library", SP >> \o LibA
GdbLines == { GdbHeader, GdbRowA, GdbRowB, GdbRowLd, GdbFootnote, GdbPreamble }

\* Every report of up to MaxGdbLines lines, and the reports a whole run is
\* checked with.
GdbOutputs == SeqsUpTo(GdbLines, MaxGdbLines)
GdbReports ==
    { << GdbPreamble, GdbHeader, GdbRowA, GdbRowB, GdbFootnote >>,
      << GdbHeader, GdbRowA, GdbRowA >>,
      << GdbPreamble, GdbHeader >> }

\* Lines of ldd's output.
LddResolved == << SP, "liba.so", SP, "=>", SP >> \o LibA \o << SP, "(0x1)" >>
LddNotFound == << SP, "libn.so", SP, "=>", SP, "not", SP, "found" >>
LddLinker == << SP >> \o LdPath \o << SP, "(0x2)" >>
LddVdso == << SP, "linux-vdso.so.1", SP, "(0x0)" >>
LddLines == { LddResolved, LddNotFound, LddLinker, LddVdso }

LddOutputs == SeqsUpTo(LddLines, MaxLddLines)
LddReports ==
    { << LddVdso, LddResolved, LddLinker >>,
      << LddVdso, LddNotFound >>,
      << LddVdso >> }

\* Lines of `readelf -S`.
SectionInfo == << "[27]", SP, ".debug_info", SP, "PROGBITS" >>
SectionStr == << "[30]", SP, ".debug_str", SP, "PROGBITS" >>
SectionInterp == << "[", SP, "1]", SP, ".interp", SP, "PROGBITS" >>
SectionLines == { SectionInfo, SectionStr, SectionInterp }

SectionOutputs == SeqsUpTo(SectionLines, MaxSLines)
SectionReports ==
    { << SectionInterp, SectionInfo, SectionStr >>,
      << SectionInterp, SectionInfo >>,
      << SectionInterp >> }

\* Lines of `readelf -n`; a note with an empty description prints no id.
NoteBuildId1 == << SP, "Build", SP, "ID:", SP >> \o BuildId1
NoteBuildId2 == << SP, "Build", SP, "ID:", SP >> \o BuildId2
NoteNoId == << SP, "Build", SP, "ID:", SP >>
NoteAbi == << SP, "OS:", SP, "Linux," >>
NoteLines == { NoteBuildId1, NoteBuildId2, NoteNoId, NoteAbi }

NoteOutputs == SeqsUpTo(NoteLines, MaxNLines)
NoteReports ==
    { << NoteAbi, NoteBuildId1 >>,
      << NoteAbi, NoteBuildId2 >>,
      << NoteAbi, NoteNoId >>,
      << NoteAbi >> }

\* What `modinfo --field=srcversion` prints: the srcversion and a newline.
ModinfoOutputs == { v \o << NL >> : v \in SrcVersions }

\* ------------------------------------------------------------- the state

VARIABLES
    pc,                 \* where the run is
    outcome,            \* "running", "ok" (exit 0), "fatal" (sys.exit(msg)), "exception"
    exit_msg,           \* the message of sys.exit, or the exception's name
    fs,                 \* the files that exist (os.path.exists)
    absent,             \* the tools shutil.which does not find
    file_res,           \* Some(what shell_cmd(['file', dump]) returns whenever this
                        \* run asks); None once no step of the run can ask again
    dump_type,          \* main: dump_type
    bin_path,           \* archive_userland_core_dump: bin_path
    libraries,          \* archive_userland_core_dump: libraries
    debug_paths,        \* archive_userland_core_dump: debug_paths
    impl,               \* the file whose binary_includes_debug_info runs:
                        \* "savedump" (the installed program) or "prog"
    has_debug,          \* the value of binary_includes_debug_info(bin_dep) in the loop
    cmd,                \* the last (success, output) of the function that is running
    i,                  \* the index of the loop that is running
    modules,            \* the modules the dump records: name -> srcversion
    mod_name_srcvers,   \* get_module_paths: mod_name_srcvers
    system_modules,     \* get_module_paths: the .ko files in enumeration order
    modinfo,            \* what modinfo returns for each candidate file in this run
    mod_paths,          \* get_module_paths: mod_paths
    staging,            \* whether the staging directory exists on disk
    staged,             \* the files in the staging directory, below its root
    archive,            \* <archive_dir>.tar.gz: "none", "partial" or "complete"
    tar_msg,            \* compress_archive's return value
    invoked,            \* history: the tools run so far
    failed,             \* history: the tools an invocation of which failed
    called,             \* history: the functions entered so far
    warned,             \* history: what the warnings printed so far name
    created,            \* history: whether this run created the staging directory
    probes              \* history: how many times get_dump_type has run

env == << fs, absent, file_res, impl >>
user == << bin_path, libraries, debug_paths, has_debug >>
kern == << modules, mod_name_srcvers, system_modules, modinfo, mod_paths >>
asm == << staging, staged, archive, tar_msg >>
hist == << invoked, failed, called, warned, created, probes >>
vars == << pc, outcome, exit_msg, env, dump_type, user, cmd, i, kern, asm, hist >>

\* shell_cmd: every result the tool may give in an environment where the tools
\* of `missing` are absent.
shell_cmd(tool, outputs, missing) ==
    IF tool \in missing THEN { NotFound } ELSE { ExitedNonZero } \cup { Ok(o) : o \in outputs }

\* The inputs a run never reads are held at one value: a run on a kernel dump
\* reads neither the userland files nor gdb, ldd and readelf, a run on a core
\* file neither vmlinux nor modinfo.  At most one tool is absent in a run.
IsKernelRun(res) == res.ok /\ get_dump_type(res.out) = Some("CRASHDUMP")

FsChoices(res) ==
    IF IsKernelRun(res)
    THEN { AlwaysThere \cup UserOptional \cup o : o \in SUBSET KernelOptional }
    ELSE { AlwaysThere \cup o : o \in SUBSET UserOptional }

AbsentChoices(res) ==
    IF ~res.ok THEN { IF res = NotFound THEN {"file"} ELSE {} }
    ELSE IF IsKernelRun(res) THEN { {}, {"modinfo"}, {"tar"} }
    ELSE { {}, {"gdb"}, {"ldd"}, {"readelf"}, {"tar"} }

Init ==
    /\ pc = "main"
    /\ outcome = "running"
    /\ exit_msg = None
    /\ \E res \in shell_cmd("file", FileOutputs, {}) \cup { NotFound } :
        /\ file_res = Some(res)
        /\ fs \in FsChoices(res)
        /\ absent \in AbsentChoices(res)
    /\ impl = "savedump"
    /\ dump_type = None
    /\ bin_path = None
    /\ libraries = None
    /\ debug_paths = << >>
    /\ has_debug = None
    /\ cmd = None
    /\ i = 0
    /\ modules = << >>
    /\ mod_name_srcvers = << >>
    /\ system_modules = << >>
    /\ modinfo = << >>
    /\ mod_paths = << >>
    /\ staging = FALSE
    /\ staged = {}
    /\ archive = "none"
    /\ tar_msg = None
    /\ invoked = {}
    /\ failed = {}
    /\ called = {}
    /\ warned = {}
    /\ created = FALSE
    /\ probes = 0

\* sys.exit(msg)
Fatal(msg) ==
    /\ pc' = "done"
    /\ outcome' = "fatal"
    /\ exit_msg' = Some(msg)

\* An exception nothing catches ends the run with a traceback.
Raise(name) ==
    /\ pc' = "done"
    /\ outcome' = "exception"
    /\ exit_msg' = Some(<< name >>)

Goto(label) ==
    /\ pc' = label
    /\ UNCHANGED << outcome, exit_msg >>

\* The history of an invocation of `tool` that returned res.
Ran(tool, res) ==
    /\ invoked' = invoked \cup {tool}
    /\ failed' = IF res.ok THEN failed ELSE failed \cup {tool}

\* -------------------------------------------------------------------- main

\* main: dump_type = get_dump_type(args.dump); the probe's failure is fatal.
MainGetDumpType ==
    /\ pc = "main"
    /\ Ran("file", Val(file_res))
    /\ probes' = probes + 1
    /\ IF ~Val(file_res).ok
       THEN Fatal(Val(file_res).out) /\ UNCHANGED dump_type
       ELSE Goto("dispatch") /\ dump_type' = get_dump_type(Val(file_res).out)
    /\ UNCHANGED << env, user, cmd, i, kern, asm, called, warned, created >>

\* A mutant of MainDispatch: the kernel branch classifies the dump once more.
MainDispatchReclassifies ==
    /\ pc = "dispatch"
    /\ IF dump_type = Some("CRASHDUMP")
       THEN /\ Goto("k_vmlinux")
            /\ called' = called \cup {"archive_kernel_dump"}
            /\ file_res' = None
            /\ probes' = probes + 1
       ELSE IF dump_type = Some("UCOREDUMP")
       THEN /\ Goto("u_binary")
            /\ called' = called \cup {"archive_userland_core_dump"}
            /\ UNCHANGED << file_res, probes >>
       ELSE /\ Fatal(<< "unknown core type" >>)
            /\ UNCHANGED << called, file_res, probes >>
    /\ UNCHANGED << fs, absent, impl, dump_type, user, cmd, i, kern, asm, invoked, failed,
                    warned, created >>

\* A mutant of MainDispatch: `else` in place of `elif`, every dump that is not
\* a kernel dump is archived as a core file.
MainDispatchElseUser ==
    /\ pc = "dispatch"
    /\ IF dump_type = Some("CRASHDUMP")
       THEN /\ Goto("k_vmlinux")
            /\ called' = called \cup {"archive_kernel_dump"}
            /\ file_res' = None
       ELSE /\ Goto("u_binary")
            /\ called' = called \cup {"archive_userland_core_dump"}
            /\ UNCHANGED file_res
    /\ UNCHANGED << fs, absent, impl, dump_type, user, cmd, i, kern, asm, invoked, failed,
                    warned, created, probes >>

\* main: the if/elif/else on dump_type.
MainDispatch ==
    /\ pc = "dispatch"
    /\ IF dump_type = Some("CRASHDUMP")
       THEN /\ Goto("k_vmlinux")
            /\ called' = called \cup {"archive_kernel_dump"}
            /\ file_res' = None
       ELSE IF dump_type = Some("UCOREDUMP")
       THEN /\ Goto("u_binary")
            /\ called' = called \cup {"archive_userland_core_dump"}
            /\ UNCHANGED file_res
       ELSE /\ Fatal(<< "unknown core type" >>)
            /\ UNCHANGED << called, file_res >>
    /\ UNCHANGED << fs, absent, impl, dump_type, user, cmd, i, kern, asm, invoked, failed,
                    warned, created, probes >>

\* ------------------------------------------------------ archive_kernel_dump

\* A mutant of KernelVmlinux: the staging directory is made before vmlinux is
\* looked for.
KernelVmlinuxAfterMkdir ==
    /\ pc = "k_vmlinux"
    /\ staging' = TRUE
    /\ created' = TRUE
    /\ IF VmlinuxPath \notin fs
       THEN Fatal(<< "error: cannot find vmlinux at: " >> \o VmlinuxPath)
       ELSE Goto("k_modules")
    /\ UNCHANGED << env, dump_type, user, cmd, i, kern, staged, archive, tar_msg,
                    invoked, failed, called, warned, probes >>

\* archive_kernel_dump up to the call of get_module_paths: vmlinux must exist.
KernelVmlinux ==
    /\ pc = "k_vmlinux"
    /\ IF VmlinuxPath \notin fs
       THEN Fatal(<< "error: cannot find vmlinux at: " >> \o VmlinuxPath)
       ELSE Goto("k_modules")
    /\ UNCHANGED << env, dump_type, user, cmd, i, kern, asm, hist >>

\* get_module_paths up to its loop: the dict of the modules the dump records
\* (drgn) and the .ko files under the module tree in the order rglob yields
\* them, each with what modinfo will say of it.
GetModulePathsBegin ==
    /\ pc = "k_modules"
    /\ \E names \in SUBSET ModuleNames :
           modules' \in [names -> SrcVersions \cup { << >> }]
    /\ mod_name_srcvers' = modules' 
    /\ system_modules' \in ArrangementsUpTo(CandidateFiles, MaxCandidates)
    /\ modinfo' \in [Range(system_modules') -> shell_cmd("modinfo", ModinfoOutputs, absent)]
    /\ mod_paths' = << >>
    /\ i' = 1
    /\ called' = called \cup {"get_module_paths"}
    /\ Goto("k_scan")
    /\ UNCHANGED << env, dump_type, user, cmd, asm, invoked, failed, warned, created, probes >>

\* Whether the loop body runs modinfo on the candidate.
QueriesModinfo(srcvers, modpath) ==
    LET modname == DropLast(basename(modpath), 3)
    IN  modname \in DOMAIN srcvers /\ srcvers[modname] # << >>

\* One iteration of the loop of get_module_paths.
GetModulePathsStep ==
    /\ pc = "k_scan"
    /\ i <= Len(system_modules)
    /\ LET modpath == system_modules[i]
           res == modinfo[modpath]
           st == scan_step([srcvers |-> mod_name_srcvers, mod_paths |-> mod_paths,
                            exit |-> None], modpath, res)
       IN  /\ mod_name_srcvers' = st.srcvers
           /\ mod_paths' = st.mod_paths
           /\ IF QueriesModinfo(mod_name_srcvers, modpath)
              THEN Ran("modinfo", res)
              ELSE UNCHANGED << invoked, failed >>
           /\ IF Len(st.exit) > 0
              THEN Fatal(Val(st.exit)) /\ UNCHANGED i
              ELSE Goto("k_scan") /\ i' = i + 1
    /\ UNCHANGED << env, dump_type, user, cmd, modules, system_modules, modinfo, asm, called,
                    warned, created, probes >>

\* A mutant of GetModulePathsReport: names left unresolved end the run.
GetModulePathsReportOrExit ==
    /\ pc = "k_scan"
    /\ i > Len(system_modules)
    /\ warned' = warned \cup DOMAIN mod_name_srcvers
    /\ IF DOMAIN mod_name_srcvers # {}
       THEN Fatal(<< "error: could not find the debug info of modules" >>)
       ELSE Goto("k_scanned")
    /\ UNCHANGED << env, dump_type, user, cmd, i, kern, asm, invoked, failed, called, created, probes >>

\* The loop is over: the two reports are printed.
GetModulePathsReport ==
    /\ pc = "k_scan"
    /\ i > Len(system_modules)
    /\ warned' = warned \cup DOMAIN mod_name_srcvers
    /\ Goto("k_scanned")
    /\ UNCHANGED << env, dump_type, user, cmd, i, kern, asm, invoked, failed, called, created, probes >>

\* get_module_paths returns mod_paths; its other locals are gone.
GetModulePathsReturn ==
    /\ pc = "k_scanned"
    /\ modules' = << >>
    /\ mod_name_srcvers' = << >>
    /\ system_modules' = << >>
    /\ modinfo' = << >>
    /\ i' = 0
    /\ Goto("k_mkdir")
    /\ UNCHANGED << env, dump_type, user, cmd, mod_paths, asm, hist >>

\* --------------------------------------------------------- the assembly

\* A path with its runs of "/" collapsed, as the file system reads it.
RECURSIVE Norm(_)
Norm(p) ==
    IF Len(p) < 2 THEN p
    ELSE IF p[1] = "/" /\ p[2] = "/" THEN Norm(Tail(p))
    ELSE << Head(p) >> \o Norm(Tail(p))

\* A mutant of copy_from_root_dest: the file lands at the staging root, its
\* directories are not recreated.
copy_from_root_flat(src) == << "/" >> \o basename(src)

\* Where a copy lands, below the staging root: shutil.copy(src, archive_dir),
\* copy_from_root(src, archive_dir) and shutil.copy(src, f"{archive_dir}{src}").
copy_dest(src) == << "/" >> \o basename(src)
copy_from_root_dest(src) == Norm(<< "/" >> \o dirname(src) \o << "/" >> \o basename(src))
copy_mirrored_dest(src) == Norm(<< "/" >> \o src)

\* shutil.copy: the file lands in the staging directory, or the copy raises
\* (the source does not exist, or the operating system refuses).
Copy(src, dest, label, index) ==
    \/ /\ src \in fs
       /\ staged' = staged \cup {dest}
       /\ Goto(label)
       /\ i' = index
    \/ /\ Raise("OSError")
       /\ UNCHANGED << staged, i >>

\* open(path, "w"), print and os.chmod of a launcher script.
WriteScript(name, label) ==
    \/ /\ staged' = staged \cup { << "/", name >> }
       /\ Goto(label)
    \/ /\ Raise("OSError")
       /\ UNCHANGED staged

\* pathlib.Path(archive_dir).mkdir(parents=True, exist_ok=True)
Mkdir(label) ==
    /\ staging' = TRUE
    /\ created' = TRUE
    /\ Goto(label)

\* compress_archive: tar writes <archive_dir>.tar.gz; when it fails it may
\* have written a part of it.
CompressArchive(label) ==
    \E res \in shell_cmd("tar", { << >> }, absent) :
        /\ Ran("tar", res)
        /\ tar_msg' = IF res.ok THEN None ELSE Some(res.out)
        /\ archive' \in IF res.ok THEN {"complete"}
                        ELSE IF res = NotFound THEN {archive}
                        ELSE {archive, "partial"}
        /\ called' = called \cup {"compress_archive"}
        /\ Goto(label)

\* shutil.rmtree(archive_dir), then sys.exit(f"error: {msg}") if msg.
RmtreeAndExit ==
    /\ staging' = FALSE
    /\ staged' = {}
    /\ IF Len(tar_msg) > 0
       THEN Fatal(<< "error: " >> \o Val(tar_msg))
       ELSE pc' = "done" /\ outcome' = "ok" /\ UNCHANGED exit_msg

KernelMkdir ==
    /\ pc = "k_mkdir"
    /\ Mkdir("k_copy_dump")
    /\ UNCHANGED << env, dump_type, user, cmd, i, kern, staged, archive, tar_msg,
                    invoked, failed, called, warned, probes >>

KernelCopyDump ==
    /\ pc = "k_copy_dump"
    /\ Copy(DumpPath, copy_dest(DumpPath), "k_copy_vmlinux", i)
    /\ UNCHANGED << env, dump_type, user, cmd, kern, staging, archive, tar_msg, hist >>

KernelCopyVmlinux ==
    /\ pc = "k_copy_vmlinux"
    /\ Copy(VmlinuxPath, copy_dest(VmlinuxPath), "k_copy_mods", 1)
    /\ UNCHANGED << env, dump_type, user, cmd, kern, staging, archive, tar_msg, hist >>

\* One iteration of `for mod_path in mod_paths`.
KernelCopyModule ==
    /\ pc = "k_copy_mods"
    /\ i <= Len(mod_paths)
    /\ Copy(mod_paths[i], copy_mirrored_dest(mod_paths[i]), "k_copy_mods", i + 1)
    /\ UNCHANGED << env, dump_type, user, cmd, kern, staging, archive, tar_msg, hist >>

KernelWriteSdb ==
    /\ pc = "k_copy_mods"
    /\ i > Len(mod_paths)
    /\ WriteScript("run-sdb.sh", "k_pycrash")
    /\ UNCHANGED << env, dump_type, user, cmd, i, kern, staging, archive, tar_msg, hist >>

KernelWritePycrash ==
    /\ pc = "k_pycrash"
    /\ WriteScript("run-pycrash.sh", "k_compress")
    /\ UNCHANGED << env, dump_type, user, cmd, i, kern, staging, archive, tar_msg, hist >>

KernelCompress ==
    /\ pc = "k_compress"
    /\ CompressArchive("k_rmtree")
    /\ UNCHANGED << env, dump_type, user, cmd, i, kern, staging, staged, warned, created, probes >>

KernelRmtree ==
    /\ pc = "k_rmtree"
    /\ RmtreeAndExit
    /\ UNCHANGED << env, dump_type, user, cmd, i, kern, archive, tar_msg, hist >>

Kernel ==
    \/ KernelVmlinux
    \/ GetModulePathsBegin
    \/ GetModulePathsStep
    \/ GetModulePathsReport
    \/ GetModulePathsReturn
    \/ KernelMkdir
    \/ KernelCopyDump
    \/ KernelCopyVmlinux
    \/ KernelCopyModule
    \/ KernelWriteSdb
    \/ KernelWritePycrash
    \/ KernelCompress
    \/ KernelRmtree

\* ----------------------------------------------- archive_userland_core_dump

\* get_binary_path_from_userland_core: the assertion probes the dump again
\* (get_dump_type), then `file` is run a third time and its output searched.
UserGetBinaryPath ==
    /\ pc = "u_binary"
    /\ called' = called \cup {"get_binary_path_from_userland_core"}
    /\ Ran("file", Val(file_res))
    /\ probes' = probes + 1
    /\ IF ~Val(file_res).ok
       THEN Fatal(Val(file_res).out) /\ UNCHANGED bin_path
       ELSE IF get_dump_type(Val(file_res).out) # Some("UCOREDUMP")
       THEN Raise("AssertionError") /\ UNCHANGED bin_path
       ELSE Goto("u_check_binary") /\ bin_path' = execfn_search(Val(file_res).out)
    /\ UNCHANGED << env, dump_type, libraries, debug_paths, has_debug, cmd, i, kern, asm,
                    warned, created >>

\* archive_userland_core_dump: the two checks of bin_path.
UserCheckBinary ==
    /\ pc = "u_check_binary"
    /\ IF Len(bin_path) = 0
       THEN Fatal(<< "error: could not find binary program from core" >>)
       ELSE IF Val(bin_path) \notin fs
       THEN Fatal(<< "error: cannot find binary pointed by the core: " >> \o Val(bin_path))
       ELSE Goto("u_gdb")
    /\ file_res' = None
    /\ UNCHANGED << fs, absent, impl, dump_type, user, cmd, i, kern, asm, hist >>

\* A mutant of needs_fallback: `if not libraries`, which an empty list passes too.
needs_fallback_falsy(libs) == Len(libs) = 0 \/ Val(libs) = << >>

\* `if libraries is None`: whether ldd is tried.
needs_fallback(libs) == Len(libs) = 0

\* libraries = get_libraries_through_gdb(bin_path, path), gdb's report being
\* one of `reports`.
UserGdbOver(reports) ==
    /\ pc = "u_gdb"
    /\ \E res \in shell_cmd("gdb", reports, absent) :
        /\ Ran("gdb", res)
        /\ cmd' = Some(res)
        /\ libraries' = get_libraries_through_gdb(res, fs)
        /\ warned' = IF res.ok THEN warned \cup gdb_missing(res.out, FALSE, fs) ELSE warned
        /\ IF needs_fallback(libraries') THEN Goto("u_ldd") ELSE Goto("u_deps")
    /\ called' = called \cup {"get_libraries_through_gdb"}
    /\ i' = 1
    /\ UNCHANGED << env, dump_type, bin_path, debug_paths, has_debug, kern, asm, created, probes >>

UserGdb == UserGdbOver(GdbReports)

\* libraries = get_libraries_through_ldd(bin_path), and the exit if it is None.
UserLddOver(reports) ==
    /\ pc = "u_ldd"
    /\ \E res \in shell_cmd("ldd", reports, absent) :
        /\ Ran("ldd", res)
        /\ IF ~res.ok
           THEN /\ Fatal(<< "error: both gdb(1) and ldd(1) fail to execute" >>)
                /\ UNCHANGED libraries
           ELSE LET r == ldd_loop(res.out, << >>)
                IN  IF r.raised
                    THEN Raise("IndexError") /\ UNCHANGED libraries
                    ELSE Goto("u_deps") /\ libraries' = Some(r.libs)
    /\ called' = called \cup {"get_libraries_through_ldd"}
    /\ UNCHANGED << env, dump_type, bin_path, debug_paths, has_debug, cmd, i, kern, asm,
                    warned, created, probes >>

UserLdd == UserLddOver(LddReports)

\* bin_deps = [bin_path] + libraries
bin_deps == << Val(bin_path) >> \o Val(libraries)

\* binary_includes_debug_info as the file that runs defines it.
includes_debug_info(res) ==
    IF impl = "prog" THEN prog_binary_includes_debug_info(res)
    ELSE binary_includes_debug_info(res)

\* The loop over bin_deps: `if binary_includes_debug_info(bin_dep)`.
UserDepCheckOver(reports) ==
    /\ pc = "u_deps"
    /\ i <= Len(bin_deps)
    /\ \E res \in shell_cmd("readelf", reports, absent) :
        /\ Ran("readelf", res)
        /\ cmd' = Some(res)
        /\ has_debug' = includes_debug_info(res)
    /\ Goto("u_dep_checked")
    /\ UNCHANGED << env, dump_type, bin_path, libraries, debug_paths, i, kern, asm,
                    called, warned, created, probes >>

UserDepCheck == UserDepCheckOver(SectionReports)

\* `continue`: the binary carries its debug data.
UserDepSkip ==
    /\ pc = "u_dep_checked"
    /\ Truthy(has_debug)
    /\ i' = i + 1
    /\ cmd' = None
    /\ has_debug' = None
    /\ Goto("u_deps")
    /\ UNCHANGED << env, dump_type, bin_path, libraries, debug_paths, kern, asm, hist >>

\* debug_info = get_debug_info_path(bin_dep): the assertion runs the check of
\* the sections again, on the same file; then the notes are read.
UserDepLookupOver(reports) ==
    /\ pc = "u_dep_checked"
    /\ ~Truthy(has_debug)
    /\ called' = called \cup {"get_debug_info_path"}
    /\ IF Truthy(includes_debug_info(Val(cmd)))
       THEN Raise("AssertionError") /\ UNCHANGED << cmd, invoked, failed >>
       ELSE \E res \in shell_cmd("readelf", reports, absent) :
               /\ Ran("readelf", res)
               /\ cmd' = Some(res)
               /\ IF get_debug_info_path(res, fs).raised
                  THEN Raise("IndexError")
                  ELSE Goto("u_dep_looked")
    /\ UNCHANGED << env, dump_type, user, i, kern, asm, warned, created, probes >>

UserDepLookup == UserDepLookupOver(NoteReports)

\* The rest of the loop body: the warning, or debug_paths.append(debug_info).
UserDepRecord ==
    /\ pc = "u_dep_looked"
    /\ LET debug_info == get_debug_info_path(Val(cmd), fs).path
       IN  IF Len(debug_info) = 0
           THEN warned' = warned \cup { bin_deps[i] } /\ UNCHANGED debug_paths
           ELSE debug_paths' = Append(debug_paths, Val(debug_info)) /\ UNCHANGED warned
    /\ i' = i + 1
    /\ cmd' = None
    /\ has_debug' = None
    /\ Goto("u_deps")
    /\ UNCHANGED << env, dump_type, bin_path, libraries, kern, asm, invoked, failed,
                    called, created, probes >>

UserMkdir ==
    /\ pc = "u_deps"
    /\ i > Len(bin_deps)
    /\ Mkdir("u_copy_dump")
    /\ UNCHANGED << env, dump_type, user, cmd, i, kern, staged, archive, tar_msg,
                    invoked, failed, called, warned, probes >>

UserCopyDump ==
    /\ pc = "u_copy_dump"
    /\ Copy(DumpPath, copy_dest(DumpPath), "u_copy_files", 1)
    /\ UNCHANGED << env, dump_type, user, cmd, kern, staging, archive, tar_msg, hist >>

\* multi_copy_from_root([bin_path] + libraries + debug_paths, archive_dir)
files_to_copy == bin_deps \o debug_paths

\* One iteration of the loop of multi_copy_from_root.
UserCopyFile ==
    /\ pc = "u_copy_files"
    /\ i <= Len(files_to_copy)
    /\ Copy(files_to_copy[i], copy_from_root_dest(files_to_copy[i]), "u_copy_files", i + 1)
    /\ UNCHANGED << env, dump_type, user, cmd, kern, staging, archive, tar_msg, hist >>

UserWriteScript ==
    /\ pc = "u_copy_files"
    /\ i > Len(files_to_copy)
    /\ WriteScript("run-gdb.sh", "u_compress")
    /\ UNCHANGED << env, dump_type, user, cmd, i, kern, staging, archive, tar_msg, hist >>

UserCompress ==
    /\ pc = "u_compress"
    /\ CompressArchive("u_rmtree")
    /\ UNCHANGED << env, dump_type, user, cmd, i, kern, staging, staged, warned, created, probes >>

UserRmtree ==
    /\ pc = "u_rmtree"
    /\ RmtreeAndExit
    /\ UNCHANGED << env, dump_type, user, cmd, i, kern, archive, tar_msg, hist >>

User ==
    \/ UserGetBinaryPath
    \/ UserCheckBinary
    \/ UserGdb
    \/ UserLdd
    \/ UserDepCheck
    \/ UserDepSkip
    \/ UserDepLookup
    \/ UserDepRecord
    \/ UserMkdir
    \/ UserCopyDump
    \/ UserCopyFile
    \/ UserWriteScript
    \/ UserCompress
    \/ UserRmtree

Next == MainGetDumpType \/ MainDispatch \/ Kernel \/ User

Spec == Init /\ [][Next]_vars

\* ------------------------------------------- the resolver on every report

\* The state in which archive_userland_core_dump calls the resolver: the
\* binary was found; gdb and ldd then report anything of the bounded sets.
InitLibraries ==
    /\ pc = "u_gdb"
    /\ outcome = "running"
    /\ exit_msg = None
    /\ file_res = None
    /\ fs \in { AlwaysThere \cup {BinPath} \cup o : o \in SUBSET (UserOptional \ {BinPath}) }
    /\ absent \in { {}, {"gdb"}, {"ldd"} }
    /\ impl = "savedump"
    /\ dump_type = Some("UCOREDUMP")
    /\ bin_path = Some(BinPath)
    /\ libraries = None
    /\ debug_paths = << >>
    /\ has_debug = None
    /\ cmd = None
    /\ i = 0
    /\ modules = << >>
    /\ mod_name_srcvers = << >>
    /\ system_modules = << >>
    /\ modinfo = << >>
    /\ mod_paths = << >>
    /\ staging = FALSE
    /\ staged = {}
    /\ archive = "none"
    /\ tar_msg = None
    /\ invoked = {"file"}
    /\ failed = {}
    /\ called = {"archive_userland_core_dump", "get_binary_path_from_userland_core"}
    /\ warned = {}
    /\ created = FALSE
    /\ probes = 2

NextLibraries == UserGdbOver(GdbOutputs) \/ UserLddOver(LddOutputs)

SpecLibraries == InitLibraries /\ [][NextLibraries]_vars

\* --------------------------------- the debug-data lookup on every report

\* The state in which the loop over bin_deps starts, in savedump.py and in
\* prog.py; readelf then reports anything of the bounded sets.
InitDebugInfo ==
    /\ pc = "u_deps"
    /\ outcome = "running"
    /\ exit_msg = None
    /\ file_res = None
    /\ fs \in { AlwaysThere \cup {BinPath} \cup o : o \in SUBSET (UserOptional \ {BinPath}) }
    /\ absent \in { {}, {"readelf"} }
    /\ impl \in { "savedump", "prog" }
    /\ dump_type = Some("UCOREDUMP")
    /\ bin_path = Some(BinPath)
    /\ libraries \in { Some(<< >>), Some(<< LibA >>) }
    /\ debug_paths = << >>
    /\ has_debug = None
    /\ cmd = None
    /\ i = 1
    /\ modules = << >>
    /\ mod_name_srcvers = << >>
    /\ system_modules = << >>
    /\ modinfo = << >>
    /\ mod_paths = << >>
    /\ staging = FALSE
    /\ staged = {}
    /\ archive = "none"
    /\ tar_msg = None
    /\ invoked = {"file", "gdb"}
    /\ failed = {}
    /\ called = {"archive_userland_core_dump", "get_binary_path_from_userland_core",
                 "get_libraries_through_gdb"}
    /\ warned = {}
    /\ created = FALSE
    /\ probes = 2

NextDebugInfo ==
    \/ UserDepCheckOver(SectionOutputs)
    \/ UserDepSkip
    \/ UserDepLookupOver(NoteOutputs)
    \/ UserDepRecord

SpecDebugInfo == InitDebugInfo /\ [][NextDebugInfo]_vars

\* ------------------------------------------------------------ the claims

HasSystemMarker(output) == Contains(output, DumpTypeValue("CRASHDUMP"))
HasProcessMarker(output) == Contains(output, DumpTypeValue("UCOREDUMP"))
Archivers == { "archive_kernel_dump", "archive_userland_core_dump" }
UnknownKind == << "unknown core type" >>
BothFail == << "error: both gdb(1) and ldd(1) fail to execute" >>

\* C1, as claimed: once a run has created the staging directory, the directory
\* does not exist when the run ends, whatever the outcome.  The code removes it
\* after the compression only: a copy or a script that raises leaves it behind.
C1_StagingRemoved == (pc = "done" /\ created) => ~staging

\* The probe succeeded and the classifier has run on its output.
C2_Classified == pc # "main" /\ Len(file_res) > 0 /\ Val(file_res).ok

\* C2, as claimed: the system marker gives the system kind, the process marker
\* gives the process kind, and an output with neither ends the run with the
\* unknown-kind error before any archiving function is called.
C2_Original ==
    C2_Classified =>
        LET output == Val(file_res).out
        IN  /\ HasSystemMarker(output) => dump_type = Some("CRASHDUMP")
            /\ HasProcessMarker(output) => dump_type = Some("UCOREDUMP")
            /\ (~HasSystemMarker(output) /\ ~HasProcessMarker(output)) =>
                   /\ dump_type = None
                   /\ called \cap Archivers = {}
                   /\ pc \in {"dispatch", "done"}
                   /\ pc = "done" => (outcome = "fatal" /\ exit_msg = Some(UnknownKind))

\* C2, amended: the system marker gives the system kind; the process marker
\* gives the process kind when the system marker is absent; an output with
\* neither ends the run with the unknown-kind error before any archiving
\* function is called.
C2_Classify ==
    C2_Classified =>
        LET output == Val(file_res).out
        IN  /\ HasSystemMarker(output) => dump_type = Some("CRASHDUMP")
            /\ (HasProcessMarker(output) /\ ~HasSystemMarker(output)) =>
                   dump_type = Some("UCOREDUMP")
            /\ (~HasSystemMarker(output) /\ ~HasProcessMarker(output)) =>
                   /\ dump_type = None
                   /\ called \cap Archivers = {}
                   /\ pc \in {"dispatch", "done"}
                   /\ pc = "done" => (outcome = "fatal" /\ exit_msg = Some(UnknownKind))

\* An output with both markers has been classified.
C2_Witness ==
    /\ C2_Classified
    /\ HasSystemMarker(Val(file_res).out)
    /\ HasProcessMarker(Val(file_res).out)
    /\ dump_type = Some("CRASHDUMP")

\* A list without its repeated entries, each kept where it first occurs.
RECURSIVE FirstSeen(_)
FirstSeen(seq) ==
    IF seq = << >> THEN << >>
    ELSE LET init == FirstSeen(SubSeq(seq, 1, Len(seq) - 1))
             last == seq[Len(seq)]
         IN  IF last \in Range(init) THEN init ELSE Append(init, last)

\* C3, as claimed: the library list the resolver returns holds no path twice
\* and keeps the order of first discovery.  The code appends every row.
C3_NoDuplicates == Len(libraries) > 0 => Val(libraries) = FirstSeen(Val(libraries))

\* C4: ldd is run exactly when the gdb invocation failed, never because gdb
\* listed no library; the run ends with the both-tools-fail error exactly when
\* both invocations failed, and then it has created neither the staging
\* directory nor an archive.
C4_Fallback ==
    /\ "ldd" \in invoked => "gdb" \in failed
    /\ ("gdb" \in failed /\ pc # "u_ldd") => "ldd" \in invoked
    /\ (exit_msg = Some(BothFail)) <=> (pc = "done" /\ {"gdb", "ldd"} \subseteq failed)
    /\ (exit_msg = Some(BothFail)) => (~created /\ ~staging /\ archive = "none")

\* gdb ran, listed no library, and the run went on to its end without ldd.
C4_Witness ==
    /\ pc = "done"
    /\ outcome = "ok"
    /\ libraries = Some(<< >>)
    /\ "gdb" \in invoked
    /\ "ldd" \notin invoked

\* Both section names occur in the output of `readelf -S`.
BothSections(output) ==
    /\ \E k \in 1..Len(output) : Contains(output[k], << ".debug_info" >>)
    /\ \E k \in 1..Len(output) : Contains(output[k], << ".debug_str" >>)

\* C5, as claimed: whenever both .debug_info and .debug_str occur in the
\* section headers, the check says the binary carries its debug data, in
\* savedump.py and in prog.py.  The loop of prog.py returns False there.
C5_SelfContained ==
    (pc = "u_dep_checked" /\ Val(cmd).ok /\ BothSections(Val(cmd).out)) =>
        has_debug = Some(TRUE)

\* The build id `readelf -n` reports: the token after the first 'Build ID:'.
C6_Reported(output) ==
    LET at == { k \in 1..Len(output) : Contains(output[k], BuildIdLabel) }
    IN  IF at = {} THEN None
        ELSE LET toks == Split(output[CHOOSE k \in at : \A j \in at : k <= j])
             IN  IF Len(toks) >= 3 THEN Some(toks[3]) ELSE None

C6_Expected(res) ==
    IF ~res.ok \/ Len(C6_Reported(res.out)) = 0 THEN None
    ELSE IF debug_path_of(Val(C6_Reported(res.out))) \in fs
         THEN Some(debug_path_of(Val(C6_Reported(res.out))))
         ELSE None

\* C6, as claimed: for a binary without embedded debug data the locator
\* returns the build-id path when the notes report an id and the path exists,
\* 'not found' otherwise, and never raises.  A 'Build ID:' line without a
\* token makes line.split()[2] raise IndexError.
C6_NeverRaises ==
    /\ pc = "u_dep_looked" => get_debug_info_path(Val(cmd), fs).path = C6_Expected(Val(cmd))
    /\ ~(pc = "done" /\ outcome = "exception" /\ "get_debug_info_path" \in called)

\* The module name of a candidate file, and the names of a list of paths.
modname_of(modpath) == DropLast(basename(modpath), 3)
MatchedNames(paths) == { modname_of(paths[k]) : k \in 1..Len(paths) }

\* The candidate's name is recorded in the dump and modinfo reports for it the
\* srcversion the dump records for that name.
FingerprintMatches(modpath) ==
    /\ modname_of(modpath) \in DOMAIN modules
    /\ modinfo[modpath].ok
    /\ Strip(modinfo[modpath].out) = modules[modname_of(modpath)]

\* Every order in which rglob may yield the same candidate files, and the
\* scan of get_module_paths run from its start in such an order.
Orders(seq) == { o \in ArrangementsUpTo(Range(seq), Len(seq)) : Len(o) = Len(seq) }
ScanIn(order) ==
    scan_loop([srcvers |-> modules, mod_paths |-> << >>, exit |-> None], order, modinfo)

InScan == pc \in {"k_scan", "k_scanned"}

\* C7, as claimed: for fixed module records and candidate files, every order
\* of enumeration gives the same matched names, the same matched paths (read
\* here as a set, the weakest reading) and the same unresolved names.
C7_Original ==
    pc = "k_scanned" =>
        \A o \in Orders(system_modules) :
            Len(ScanIn(o).exit) = 0 =>
                /\ MatchedNames(ScanIn(o).mod_paths) = MatchedNames(mod_paths)
                /\ Range(ScanIn(o).mod_paths) = Range(mod_paths)
                /\ DOMAIN ScanIn(o).srcvers = DOMAIN mod_name_srcvers

\* C7, amended: every order of enumeration in which the scan runs to its end
\* gives the same matched names, as many matched paths and the same unresolved
\* names; the order of the paths and the choice among several candidates of
\* one name and srcversion follow the enumeration.
C7_Deterministic ==
    pc = "k_scanned" =>
        \A o \in Orders(system_modules) :
            Len(ScanIn(o).exit) = 0 =>
                /\ MatchedNames(ScanIn(o).mod_paths) = MatchedNames(mod_paths)
                /\ Len(ScanIn(o).mod_paths) = Len(mod_paths)
                /\ DOMAIN ScanIn(o).srcvers = DOMAIN mod_name_srcvers

\* A scan is over and another order would have matched another file.
C7_Witness ==
    /\ pc = "k_scanned"
    /\ mod_paths # << >>
    /\ \E o \in Orders(system_modules) :
           Len(ScanIn(o).exit) = 0 /\ Range(ScanIn(o).mod_paths) # Range(mod_paths)

\* During the scan no name has two paths, a matched name is out of the pending
\* dict, and the path recorded for a name is the first candidate of that name,
\* in enumeration order, whose srcversion matches.
C8_State ==
    InScan =>
        /\ \A a, b \in 1..Len(mod_paths) :
               a # b => modname_of(mod_paths[a]) # modname_of(mod_paths[b])
        /\ MatchedNames(mod_paths) \cap DOMAIN mod_name_srcvers = {}
        /\ \A a \in 1..Len(mod_paths) :
               \E j \in 1..Len(system_modules) :
                   /\ system_modules[j] = mod_paths[a]
                   /\ FingerprintMatches(system_modules[j])
                   /\ \A k \in 1..(j - 1) :
                          modname_of(system_modules[k]) = modname_of(system_modules[j])
                              => ~FingerprintMatches(system_modules[k])

\* C8: each module name is resolved at most once, by the first candidate in
\* enumeration order whose name and srcversion match; the name then leaves the
\* pending dict, and every step of the scan leaves mod_paths as it is or
\* appends one path to it.
C8_ResolvedOnce ==
    [][ /\ C8_State'
        /\ pc = "k_scan" =>
               \/ mod_paths' = mod_paths
               \/ \E k \in 1..Len(system_modules) :
                      mod_paths' = Append(mod_paths, system_modules[k]) ]_vars

\* The scan has passed a second candidate of a matched name whose srcversion
\* matches too, and kept the first.
C8_Witness ==
    /\ InScan
    /\ \E j, k \in 1..Len(system_modules) :
           /\ j < k /\ k < i
           /\ modname_of(system_modules[j]) = modname_of(system_modules[k])
           /\ FingerprintMatches(system_modules[j])
           /\ FingerprintMatches(system_modules[k])
           /\ \E a \in 1..Len(mod_paths) : mod_paths[a] = system_modules[j]
           /\ \A a \in 1..Len(mod_paths) : mod_paths[a] # system_modules[k]

\* C9: every path in mod_paths is a candidate file whose name the dump records
\* and for which modinfo reports the srcversion the dump records for that name.
C9_FingerprintMatch ==
    InScan =>
        \A a \in 1..Len(mod_paths) :
            /\ \E j \in 1..Len(system_modules) : system_modules[j] = mod_paths[a]
            /\ FingerprintMatches(mod_paths[a])

\* The scan is over, has matched a path and has left out a candidate whose
\* name is recorded but whose srcversion differs.
C9_Witness ==
    /\ pc = "k_scanned"
    /\ mod_paths # << >>
    /\ \E j \in 1..Len(system_modules) :
           /\ modname_of(system_modules[j]) \in DOMAIN modules
           /\ modinfo[system_modules[j]].ok
           /\ ~FingerprintMatches(system_modules[j])
           /\ \A a \in 1..Len(mod_paths) : mod_paths[a] # system_modules[j]

\* The names reported are the recorded names no path was matched for.
C10_Partition ==
    /\ warned = DOMAIN mod_name_srcvers
    /\ MatchedNames(mod_paths) \subseteq DOMAIN modules
    /\ DOMAIN mod_name_srcvers = DOMAIN modules \ MatchedNames(mod_paths)

\* C10: when the scan is over the names reported as unresolved are exactly the
\* recorded names without a matched path, and the run goes on to create the
\* staging directory whether or not some name is unresolved.
C10_Unresolved ==
    [][ /\ (pc = "k_scan" /\ i > Len(system_modules)) =>
               (pc' = "k_scanned" /\ outcome' = "running" /\ C10_Partition')
        /\ pc = "k_scanned" => (pc' = "k_mkdir" /\ outcome' = "running") ]_vars

\* A run on a kernel dump reported unresolved names and wrote its archive.
C10_Witness ==
    /\ pc = "done"
    /\ outcome = "ok"
    /\ dump_type = Some("CRASHDUMP")
    /\ warned # {}
    /\ archive = "complete"

\* C11, as claimed: when the compression fails, no <archive_dir>.tar.gz written
\* by the attempt is left once the run has ended, and the run ends with the
\* fatal error that carries tar's message.  Nothing in the code removes what
\* tar wrote before it failed.
C11_NoArchiveLeft ==
    (pc = "done" /\ "tar" \in failed) =>
        /\ archive = "none"
        /\ outcome = "fatal"
        /\ exit_msg = Some(<< "error: " >> \o Val(tar_msg))

\* The copies done so far in the run: the files multi_copy_from_root has
\* copied, and the modules the loop of archive_kernel_dump has copied.
UserCopyPhase == { "u_copy_files", "u_compress", "u_rmtree" }
KernelCopyPhase == { "k_copy_mods", "k_pycrash", "k_compress", "k_rmtree" }
UserCopied == IF pc \in UserCopyPhase THEN SubSeq(files_to_copy, 1, i - 1) ELSE << >>
ModulesCopied == IF pc \in KernelCopyPhase THEN SubSeq(mod_paths, 1, i - 1) ELSE << >>

\* The place of an absolute source path below the staging root when its
\* directories are mirrored: the path itself.
UnderRoot(src) == src

\* C12, as claimed: the binary, every library, every debug file, every kernel
\* module and the kernel image lie in the staging directory at the staging
\* root followed by their absolute source path.
C12_Original ==
    /\ \A k \in 1..Len(UserCopied) : UnderRoot(UserCopied[k]) \in staged
    /\ \A k \in 1..Len(ModulesCopied) : UnderRoot(ModulesCopied[k]) \in staged
    /\ pc \in KernelCopyPhase => UnderRoot(VmlinuxPath) \in staged

\* C12, amended: the binary, every library, every debug file and every kernel
\* module lie at the staging root followed by their absolute source path; the
\* kernel image lies directly in the staging root under its base name.
C12_Mirrored ==
    /\ \A k \in 1..Len(UserCopied) : UnderRoot(UserCopied[k]) \in staged
    /\ \A k \in 1..Len(ModulesCopied) : UnderRoot(ModulesCopied[k]) \in staged
    /\ pc \in KernelCopyPhase =>
           /\ << "/" >> \o basename(VmlinuxPath) \in staged
           /\ UnderRoot(VmlinuxPath) \notin staged

\* The binary, a library and a debug file have been copied.
C12_Witness ==
    /\ pc = "u_compress"
    /\ Val(libraries) # << >>
    /\ debug_paths # << >>
    /\ Len(UserCopied) = Len(files_to_copy)

\* C13, as claimed: a library that is not on disk is left out of the list of
\* libraries, whichever tool reported it, and the run does not end in the copy
\* of a library that is not there.  ldd's "not found" puts the word `not` in
\* the list and shutil.copy raises on it.
C13_MissingLibrarySoft ==
    /\ Len(libraries) > 0 => \A k \in 1..Len(Val(libraries)) : Val(libraries)[k] \in fs
    /\ ~(pc = "done" /\ outcome = "exception" /\ created
         /\ \E k \in 1..Len(files_to_copy) : files_to_copy[k] \notin fs)

\* C14, as claimed: once a tool that is absent has been asked for, the run is
\* over or removing its staging directory on the way out, it ends with a fatal
\* error and no archive is complete.  An absent gdb leads to ldd, an absent
\* readelf to a warning.
C14_ToolMissingFatal ==
    \A t \in absent \cap invoked :
        /\ pc \in { "done", "k_rmtree", "u_rmtree" }
        /\ pc = "done" => (outcome = "fatal" /\ archive # "complete")

\* C15, as claimed: the classifier runs once in a run, in main, and never again.
\* get_binary_path_from_userland_core runs it again in its assertion.
C15_Original == pc # "main" => probes = 1

\* C15, amended: main derives the dump kind once, before any other step, and
\* dump_type never changes afterwards; a run on a kernel dump never classifies
\* again; a run on a core file classifies exactly once more, in the assertion
\* of get_binary_path_from_userland_core, its first resolution step.
C15_DerivedOnce ==
    [][ /\ pc # "main" => dump_type' = dump_type
        /\ probes' # probes => pc \in { "main", "u_binary" }
        /\ pc' # "main" =>
               probes' = IF "get_binary_path_from_userland_core" \in called' THEN 2 ELSE 1
        /\ dump_type' = Some("CRASHDUMP") => probes' = 1 ]_vars

\* A run on a core file wrote its archive; the classifier ran twice.
C15_Witness ==
    /\ pc = "done"
    /\ outcome = "ok"
    /\ dump_type = Some("UCOREDUMP")
    /\ probes = 2

\* The path token of a row of the report: its last token when that is an
\* absolute path.
C16_PathToken(line) ==
    LET toks == Split(line)
    IN  IF toks # << >> /\ Head(toks[Len(toks)]) = "/" THEN Some(toks[Len(toks)]) ELSE None

\* The path tokens of the rows, in order, that exist on disk.
RECURSIVE C16_Paths(_, _)
C16_Paths(rows, exists) ==
    IF rows = << >> THEN << >>
    ELSE LET tok == C16_PathToken(Head(rows))
         IN  (IF Len(tok) > 0 /\ Val(tok) \in exists THEN tok ELSE << >>)
             \o C16_Paths(Tail(rows), exists)

\* The rows after the first line that holds the header label.
C16_Expected(report, exists) ==
    LET heads == { k \in 1..Len(report) : Contains(report[k], SharedObjectLibrary) }
    IN  IF heads = {} THEN << >>
        ELSE C16_Paths(SubSeq(report, (CHOOSE k \in heads : \A j \in heads : k <= j) + 1,
                              Len(report)), exists)

\* gdb has just reported, and the list of libraries was made from its report.
C16_Reported == pc = "u_deps" /\ i = 1 /\ Len(cmd) > 0 /\ Val(cmd).ok

\* C16: after a successful gdb invocation the library list is the sequence, in
\* report order, of the path tokens of the rows below the header whose path
\* exists on disk.
C16_ReportOrder == C16_Reported => libraries = Some(C16_Expected(Val(cmd).out, fs))

\* A report of a header and three rows with existing paths gave three entries.
C16_Witness ==
    /\ C16_Reported
    /\ Val(cmd).out = << GdbHeader, GdbRowA, GdbRowB, GdbRowLd >>
    /\ libraries = Some(<< LibA, LibB, LdPath >>)

\* The messages of the fatal exits of classification and resolution.
C17_ResolutionExits ==
    { NotFound.out, ExitedNonZero.out, UnknownKind, BothFail,
      << "error: could not find binary program from core" >>,
      << "error: cannot find binary pointed by the core: " >> \o BinPath,
      << "error: cannot find vmlinux at: " >> \o VmlinuxPath }

\* C17: a run that ends with a fatal exit before the compression ended with one
\* of the exits of classification and resolution, and it has made neither a
\* staging directory nor an archive.
C17_FatalBeforeStaging ==
    (pc = "done" /\ outcome = "fatal" /\ "compress_archive" \notin called) =>
        /\ Val(exit_msg) \in C17_ResolutionExits
        /\ ~created
        /\ ~staging
        /\ staged = {}
        /\ archive = "none"

\* modinfo failed during the scan and the run ended there.
C17_Witness ==
    /\ pc = "done"
    /\ outcome = "fatal"
    /\ "modinfo" \in failed
    /\ "get_module_paths" \in called

\* C18: no run ends with an AssertionError; get_binary_path_from_userland_core
\* is entered only when main classified the dump as a core file, and
\* get_debug_info_path only for a binary whose check was False or None.
C18_AssertionsHold ==
    /\ ~(pc = "done" /\ outcome = "exception" /\ exit_msg = Some(<< "AssertionError" >>))
    /\ "get_binary_path_from_userland_core" \in called => dump_type = Some("UCOREDUMP")
    /\ pc = "u_dep_looked" => ("get_debug_info_path" \in called /\ ~Truthy(has_debug))

\* get_debug_info_path ran for a binary whose check had failed (None).
C18_Witness ==
    /\ pc = "u_dep_looked"
    /\ "get_debug_info_path" \in called
    /\ has_debug = None

====
